---------------------------- MODULE Spec2Model ----------------------------
(***************************************************************************)
(* A model of the "Open in Claude Code (Windows)" Obsidian plugin          *)
(* (src/main.ts): the command builder, the terminal dispatch table, the    *)
(* launch orchestrator with its delayed keystroke automation, the          *)
(* assistant presence memo and the terminal presence cache.                *)
(*                                                                         *)
(* Text is modelled as a sequence of atoms.  An atom is a chunk of         *)
(* characters that holds none of the characters the code treats            *)
(* specially; each special character (the double quote, the slash, the     *)
(* blank of a directory entry) and each placeholder of a custom command    *)
(* is an atom of its own.  Concatenation of text is \o.                    *)
(***************************************************************************)
EXTENDS Integers, Sequences, FiniteSets, TLC

(***************************************************************************)
(* Atoms                                                                   *)
(***************************************************************************)
Q == "\""
BS == "\\"
SLASH == "/"
BLANK == " "
CWD_PLACEHOLDER == "{{cwd}}"
CLAUDE_PLACEHOLDER == "{{claude}}"
DOLLAR_AMP == "$&"
DOLLAR_DOLLAR == "$$"
NULL == "null"
UNDEFINED == "undefined"

(***************************************************************************)
(* DEFAULT_SETTINGS                                                        *)
(***************************************************************************)
DefaultTerminalDelay == 1500
DefaultMaxTurns == 10

DEFAULT_SETTINGS ==
    [ terminalApp |-> "cmd",
      customCommand |-> << >>,
      claudeCodePath |-> "claude",
      useCustomClaudePath |-> FALSE,
      keyboardShortcut |-> "Ctrl+Shift+C",
      showDebugInfo |-> FALSE,
      terminalDelay |-> DefaultTerminalDelay,
      alwaysOpenVaultRoot |-> FALSE,
      useCustomVaultPath |-> FALSE,
      customVaultPath |-> << >>,
      permissionMode |-> "default",
      dangerouslySkipPermissions |-> FALSE,
      allowedTools |-> << >>,
      deniedTools |-> << >>,
      claudeModel |-> "default",
      continueLastSession |-> FALSE,
      additionalDirectories |-> << >>,
      maxTurns |-> DefaultMaxTurns,
      verboseMode |-> FALSE ]

(***************************************************************************)
(* escapeWindowsPath: str.replace(/"/g, '""')                              *)
(***************************************************************************)
\* A variant of escapeWindowsPath that puts a backslash before each quote.
RECURSIVE escapeWithBackslash(_)
escapeWithBackslash(str) ==
    IF str = << >> THEN << >>
    ELSE (IF Head(str) = Q THEN <<BS, Q>> ELSE <<Head(str)>>)
         \o escapeWithBackslash(Tail(str))

RECURSIVE escapeWindowsPath(_)
escapeWindowsPath(str) ==
    IF str = << >> THEN << >>
    ELSE (IF Head(str) = Q THEN <<Q, Q>> ELSE <<Head(str)>>)
         \o escapeWindowsPath(Tail(str))

(***************************************************************************)
(* String.prototype.trim on a directory entry: leading and trailing blank  *)
(* atoms are dropped.                                                      *)
(***************************************************************************)
RECURSIVE TrimLeft(_)
TrimLeft(str) ==
    IF str # << >> /\ Head(str) = BLANK THEN TrimLeft(Tail(str)) ELSE str

RECURSIVE TrimRight(_)
TrimRight(str) ==
    IF str # << >> /\ str[Len(str)] = BLANK
    THEN TrimRight(SubSeq(str, 1, Len(str) - 1))
    ELSE str

Trim(str) == TrimRight(TrimLeft(str))

(***************************************************************************)
(* Array.prototype.join(','): the entries separated by commas.             *)
(***************************************************************************)
RECURSIVE JoinComma(_)
JoinComma(list) ==
    IF list = << >> THEN << >>
    ELSE IF Len(list) = 1 THEN <<list[1]>>
    ELSE <<list[1], ",">> \o JoinComma(Tail(list))

(***************************************************************************)
(* buildClaudeCommand, flag by flag                                        *)
(***************************************************************************)
BaseToken(settings) ==
    IF settings.useCustomClaudePath THEN <<settings.claudeCodePath>> ELSE <<"claude">>

PermissionModeFlag(settings) ==
    IF settings.permissionMode # "" /\ settings.permissionMode # "default"
    THEN <<" ", "--permission-mode", " ", settings.permissionMode>>
    ELSE << >>

SkipPermissionsFlag(settings) ==
    IF settings.dangerouslySkipPermissions
    THEN <<" ", "--dangerously-skip-permissions">>
    ELSE << >>

AllowedToolsFlag(settings) ==
    IF Len(settings.allowedTools) > 0
    THEN <<" ", "--allowedTools", " ">> \o JoinComma(settings.allowedTools)
    ELSE << >>

DeniedToolsFlag(settings) ==
    IF Len(settings.deniedTools) > 0
    THEN <<" ", "--disallowedTools", " ">> \o JoinComma(settings.deniedTools)
    ELSE << >>

ModelFlag(settings) ==
    IF settings.claudeModel # "" /\ settings.claudeModel # "default"
    THEN <<" ", "--model", " ", settings.claudeModel>>
    ELSE << >>

ContinueFlag(settings) ==
    IF settings.continueLastSession THEN <<" ", "--continue">> ELSE << >>

\* `settings.maxTurns && settings.maxTurns !== 10`: 0 is falsy.
MaxTurnsFlag(settings) ==
    IF settings.maxTurns # 0 /\ settings.maxTurns # DefaultMaxTurns
    THEN <<" ", "--max-turns", " ", ToString(settings.maxTurns)>>
    ELSE << >>

\* A variant of VerboseFlag that appends the flag whatever the option.
VerboseFlagAlways(settings) == <<" ", "--verbose">>

VerboseFlag(settings) ==
    IF settings.verboseMode THEN <<" ", "--verbose">> ELSE << >>

RECURSIVE AddDirFlags(_)
AddDirFlags(dirs) ==
    IF dirs = << >> THEN << >>
    ELSE (IF Trim(Head(dirs)) # << >>
          THEN <<" ", "--add-dir", " ", Q>> \o escapeWindowsPath(Trim(Head(dirs))) \o <<Q>>
          ELSE << >>)
         \o AddDirFlags(Tail(dirs))

\* A variant of buildClaudeCommand that appends the model before the tools.
buildClaudeCommandModelFirst(settings) ==
    BaseToken(settings)
    \o PermissionModeFlag(settings)
    \o SkipPermissionsFlag(settings)
    \o ModelFlag(settings)
    \o AllowedToolsFlag(settings)
    \o DeniedToolsFlag(settings)
    \o ContinueFlag(settings)
    \o MaxTurnsFlag(settings)
    \o VerboseFlag(settings)
    \o AddDirFlags(settings.additionalDirectories)

buildClaudeCommand(settings) ==
    BaseToken(settings)
    \o PermissionModeFlag(settings)
    \o SkipPermissionsFlag(settings)
    \o AllowedToolsFlag(settings)
    \o DeniedToolsFlag(settings)
    \o ModelFlag(settings)
    \o ContinueFlag(settings)
    \o MaxTurnsFlag(settings)
    \o VerboseFlag(settings)
    \o AddDirFlags(settings.additionalDirectories)


(***************************************************************************)
(* TERMINAL_APPS, the dispatch table.  TERMINAL_APPS is an object literal  *)
(* read with TERMINAL_APPS[id]: an id that is no key of the table but      *)
(* names a property of Object.prototype reads that inherited property,     *)
(* which is truthy and has no openCommand.                                 *)
(***************************************************************************)
TerminalKeys == {"cmd", "powershell", "windowsterminal", "vscode", "cursor"}

ObjectPrototypeKeys ==
    {"constructor", "toString", "valueOf", "hasOwnProperty", "isPrototypeOf",
     "propertyIsEnumerable", "toLocaleString", "__proto__"}

EditorKeys == {"vscode", "cursor"}

TerminalName(id) ==
    CASE id = "cmd" -> "Command Prompt"
      [] id = "powershell" -> "PowerShell"
      [] id = "windowsterminal" -> "Windows Terminal"
      [] id = "vscode" -> "VS Code"
      [] id = "cursor" -> "Cursor"
      [] OTHER -> UNDEFINED

executableName(id) ==
    CASE id = "cmd" -> "cmd.exe"
      [] id = "powershell" -> "powershell.exe"
      [] id = "windowsterminal" -> "wt.exe"
      [] id = "vscode" -> "code.exe"
      [] id = "cursor" -> "cursor.exe"
      [] OTHER -> UNDEFINED

\* The value of TERMINAL_APPS[id]: "entry", "inherited" or undefined.
TerminalConfig(id) ==
    IF id \in TerminalKeys THEN "entry"
    ELSE IF id \in ObjectPrototypeKeys THEN "inherited"
    ELSE UNDEFINED

\* terminalConfig.openCommand(cwd, claudePath) of the table's entries.
openCommand(id, cwd, claudePath) ==
    CASE id = "cmd" ->
           <<"cmd /c ", Q, "start cmd /k ", BS, Q, "cd /d ">> \o escapeWindowsPath(cwd)
           \o <<" && ">> \o claudePath \o <<BS, Q, Q>>
      [] id = "powershell" ->
           <<"powershell -Command ", Q,
             "Start-Process powershell -ArgumentList '-NoExit', '-Command', 'Set-Location ",
             BS, Q>> \o escapeWindowsPath(cwd) \o <<BS, Q, "; ">> \o claudePath \o <<"'", Q>>
      [] id = "windowsterminal" ->
           <<"wt -d ", Q>> \o escapeWindowsPath(cwd) \o <<Q, " cmd /k ", Q>>
           \o claudePath \o <<Q>>
      [] id = "vscode" -> <<"code ", Q>> \o escapeWindowsPath(cwd) \o <<Q>>
      [] id = "cursor" -> <<"cursor ", Q>> \o escapeWindowsPath(cwd) \o <<Q>>

(***************************************************************************)
(* getVaultPath and getWorkingDirectory.  basePath is the host's detected  *)
(* base path ('' when the adapter is no FileSystemAdapter); activeFile     *)
(* tells whether there is an active file, whether it has a parent folder   *)
(* and that folder's path.                                                 *)
(***************************************************************************)
\* A variant of getVaultPath that takes the custom path whenever it is enabled.
getVaultPathWhenEnabled(settings, basePath) ==
    IF settings.useCustomVaultPath THEN settings.customVaultPath ELSE basePath

getVaultPath(settings, basePath) ==
    IF settings.useCustomVaultPath /\ settings.customVaultPath # << >>
    THEN settings.customVaultPath
    ELSE basePath

\* A variant of ReplaceSlashes that replaces the first '/' only.
ReplaceFirstSlash(str) ==
    IF \E n \in 1..Len(str) : str[n] = SLASH
    THEN LET k == CHOOSE n \in 1..Len(str) :
                      str[n] = SLASH /\ \A m \in 1..(n - 1) : str[m] # SLASH
         IN [n \in 1..Len(str) |-> IF n = k THEN BS ELSE str[n]]
    ELSE str

\* folderPath.replace(/\//g, '\\')
RECURSIVE ReplaceSlashes(_)
ReplaceSlashes(str) ==
    IF str = << >> THEN << >>
    ELSE <<IF Head(str) = SLASH THEN BS ELSE Head(str)>> \o ReplaceSlashes(Tail(str))

\* activeFile.parent?.path || ''
FolderPath(file) ==
    IF file.hasParent THEN file.parentPath ELSE << >>

getWorkingDirectory(settings, basePath, file) ==
    LET vaultPath == getVaultPath(settings, basePath) IN
    IF settings.alwaysOpenVaultRoot THEN vaultPath
    ELSE IF ~file.exists THEN vaultPath
    ELSE IF FolderPath(file) # << >>
         THEN vaultPath \o <<BS>> \o ReplaceSlashes(FolderPath(file))
         ELSE vaultPath

(***************************************************************************)
(* executeCustomCommand's templating: String.prototype.replace with a      *)
(* string pattern replaces the first occurrence only, and expands the      *)
(* replacement patterns $$ and $& of the replacement text.                 *)
(***************************************************************************)
RECURSIVE ExpandReplacement(_, _)
ExpandReplacement(rep, matched) ==
    IF rep = << >> THEN << >>
    ELSE <<(IF Head(rep) = DOLLAR_AMP THEN matched
            ELSE IF Head(rep) = DOLLAR_DOLLAR THEN "$"
            ELSE Head(rep))>>
         \o ExpandReplacement(Tail(rep), matched)

RECURSIVE ReplaceFirst(_, _, _)
ReplaceFirst(str, pat, rep) ==
    IF str = << >> THEN << >>
    ELSE IF Head(str) = pat THEN ExpandReplacement(rep, pat) \o Tail(str)
    ELSE <<Head(str)>> \o ReplaceFirst(Tail(str), pat, rep)

CustomCommandLine(settings, cwd) ==
    ReplaceFirst(ReplaceFirst(settings.customCommand, CWD_PLACEHOLDER, cwd),
                 CLAUDE_PLACEHOLDER, buildClaudeCommand(settings))

\* handleCodeEditor's delay: customDelay || terminalDelay || default.
EditorDelay(settings) ==
    IF settings.terminalDelay # 0 THEN settings.terminalDelay ELSE DefaultTerminalDelay

(***************************************************************************)
(* Bounds and the inputs the model draws from                              *)
(***************************************************************************)
MaxLaunch == 1
MaxDisplay == 1

StdClaudePath == "C:\\Program Files\\Claude\\claude.exe"
OtherClaudePath == "D:\\tools\\claude.exe"
ClaudePaths == {StdClaudePath, OtherClaudePath}
PathInputs == {"", OtherClaudePath}

VaultBase == <<"C:", BS, "Vault">>
NoFile == [exists |-> FALSE, hasParent |-> FALSE, parentPath |-> << >>]

LaunchTerminalIds == TerminalKeys \cup {"custom", "foo", "constructor"}

\* A stored record without fields: no data.json, or one holding {}.
NoData == [f \in {} |-> FALSE]

B2S(b) == IF b THEN "true" ELSE "false"

(***************************************************************************)
(* State                                                                   *)
(***************************************************************************)
VARIABLES
    settings,          \* plugin.settings
    claudeInstalled,   \* plugin.claudeInstalled: NULL, "true" or "false"
    platformWin,       \* Platform.isDesktopApp && Platform.isWin
    fs,                \* the paths at which the assistant executable exists
    activeFile,        \* app.workspace.getActiveFile()
    inv,               \* inv[0]: onload's presence check; inv[i]: the i-th launch
    uiDetecting,       \* the path toggle's detectClaudePath() is in flight
    overrideChanged,   \* history: the override setting changed since the last check
    lastCheck          \* history: the last call of checkClaudeCodeInstallation

launchVars ==
    <<settings, claudeInstalled, platformWin, fs, activeFile, inv, uiDetecting,
      overrideChanged, lastCheck>>

VARIABLES
    terminalAppCache,  \* the module-level Map: executable name -> entry
    now,               \* Date.now()
    present,           \* the executables a probe finds
    display,           \* display[d]: the two query streams the d-th display() starts
    pendingClear       \* history: no query for the key was made since the last clear()

cacheVars == <<terminalAppCache, now, present, display, pendingClear>>

VARIABLES
    loaded,            \* onload's loadSettings() has run
    dataFile,          \* the stored record loadData() will return to onload's
                       \* loadSettings(); not followed once it has been loaded
    defaultSettings,   \* the module-level DEFAULT_SETTINGS object as it is now
    sharedArrays       \* the array fields of settings that are the very array
                       \* objects of DEFAULT_SETTINGS

settingsVars == <<loaded, dataFile, defaultSettings, sharedArrays>>

vars == <<launchVars, cacheVars, settingsVars>>

IdleInv ==
    [ pc |-> "idle", verifyPath |-> "", outcome |-> "none", error |-> "none",
      term |-> "", editor |-> FALSE, command |-> << >>, spawnHasCwd |-> FALSE,
      spawnCwd |-> << >>, workingDir |-> << >>, claudeCommand |-> << >>,
      delay |-> 0, primarySpawns |-> 0, secondary |-> "none", keystroke |-> "",
      typed |-> << >>, editorName |-> "", notices |-> {},
      checkResult |-> "none", spawnResult |-> "none", template |-> << >> ]

(***************************************************************************)
(* detectClaudePath and verifyClaudePath against the file system.  A probe *)
(* that errors counts as a negative answer.                                *)
(***************************************************************************)
detectClaudePath(files, err) ==
    IF ~err /\ StdClaudePath \in files THEN StdClaudePath ELSE NULL

verifyClaudePath(path, files, err) ==
    IF path = "" THEN FALSE ELSE (~err /\ path \in files)

(***************************************************************************)
(* openClaudeCode from the presence result to the primary spawn            *)
(***************************************************************************)
\* A variant of IsCodeEditor that takes every app but Command Prompt for an editor.
IsCodeEditorLoose(id) == id # "cmd" /\ id \in TerminalKeys

\* `terminalApp === 'vscode' || terminalApp === 'cursor'`
IsCodeEditor(id) == id \in EditorKeys

Spawning(rec, s, cmd, hasCwd, cwd) ==
    [rec EXCEPT !.pc = "spawning", !.term = s.terminalApp,
                !.template = s.customCommand,
                !.editor = IsCodeEditor(s.terminalApp),
                !.command = cmd, !.spawnHasCwd = hasCwd,
                !.spawnCwd = IF hasCwd THEN cwd ELSE << >>,
                !.workingDir = cwd,
                !.claudeCommand = buildClaudeCommand(s),
                !.delay = IF IsCodeEditor(s.terminalApp) THEN EditorDelay(s) ELSE 0,
                !.primarySpawns = rec.primarySpawns + 1]

\* executeCustomCommand up to its execAsync(command, { cwd })
executeCustomCommand(rec, s, cwd) ==
    Spawning(rec, s, CustomCommandLine(s, cwd), TRUE, cwd)

\* openInTerminal (and handleCodeEditor) up to the execAsync of the primary spawn
openInTerminal(rec, s, cwd) ==
    IF TerminalConfig(s.terminalApp) = UNDEFINED
    THEN [rec EXCEPT !.pc = "done", !.term = s.terminalApp, !.workingDir = cwd,
                     !.outcome = "Failed", !.error = "InvalidTerminalSelected",
                     !.notices = rec.notices \cup {"Failed to open Claude Code"}]
    ELSE IF IsCodeEditor(s.terminalApp)
    THEN Spawning(rec, s, openCommand(s.terminalApp, cwd, buildClaudeCommand(s)), FALSE, cwd)
    ELSE IF TerminalConfig(s.terminalApp) = "entry"
    THEN Spawning(rec, s, openCommand(s.terminalApp, cwd, buildClaudeCommand(s)), FALSE, cwd)
    ELSE Spawning(rec, s, buildClaudeCommand(s), TRUE, cwd)

\* openClaudeCode from getWorkingDirectory on
Dispatch(rec, s) ==
    LET cwd == getWorkingDirectory(s, VaultBase, activeFile) IN
    IF s.terminalApp = "custom"
    THEN executeCustomCommand(rec, s, cwd)
    ELSE openInTerminal(rec, s, cwd)

\* A variant of AfterCheck that goes on whatever the presence check answered.
AfterCheckUnguarded(rec, s, installed) ==
    Dispatch([rec EXCEPT !.checkResult = B2S(installed)], s)

\* openClaudeCode once checkClaudeCodeInstallation has answered `installed`
AfterCheck(rec, s, installed) ==
    IF ~installed
    THEN [rec EXCEPT !.pc = "done", !.outcome = "AssistantNotFound",
                     !.checkResult = "false",
                     !.notices = rec.notices \cup {"Claude Code not found"}]
    ELSE Dispatch([rec EXCEPT !.checkResult = "true"], s)

\* What the caller of checkClaudeCodeInstallation does with the answer:
\* onload (caller 0) drops it, a launch goes on.
Resume(i, rec, s, installed) ==
    IF i = 0 THEN [rec EXCEPT !.pc = "done"] ELSE AfterCheck(rec, s, installed)

(***************************************************************************)
(* checkClaudeCodeInstallation up to its first suspension                  *)
(***************************************************************************)
\* A variant of BeginCheck that short-circuits on a cached true only.
BeginCheckRetryAfterFalse(i, rec, s) ==
    IF claudeInstalled = "true"
    THEN Resume(i, rec, s, TRUE)
    ELSE IF s.useCustomClaudePath
    THEN [rec EXCEPT !.pc = "verifying", !.verifyPath = s.claudeCodePath]
    ELSE [rec EXCEPT !.pc = "detecting"]

BeginCheck(i, rec, s) ==
    IF claudeInstalled # NULL
    THEN Resume(i, rec, s, claudeInstalled = "true")
    ELSE IF s.useCustomClaudePath
    THEN [rec EXCEPT !.pc = "verifying", !.verifyPath = s.claudeCodePath]
    ELSE [rec EXCEPT !.pc = "detecting"]

CheckRecord(i) ==
    [caller |-> i, afterChange |-> overrideChanged, probed |-> (claudeInstalled = NULL)]

(***************************************************************************)
(* The terminal presence cache: terminalAppCache, CACHE_DURATION,          *)
(* checkTerminalAppInstalled, and the two streams of queries a display()   *)
(* of the settings tab starts: checkInstalledTerminalApps (the dropdown)   *)
(* and checkAndDisplayClaudeStatus (the debug list, after clear()).        *)
(*                                                                         *)
(* The entries of different keys never bear on one another, so the model   *)
(* follows the entries of the keys of TrackedApps and lets the clock be    *)
(* read at the instants of Instants.  The debug list queries cmd.exe and   *)
(* powershell.exe first; nothing else queries them, so right after the     *)
(* clear() the first of them is always probed, and the stream is suspended *)
(* there ("builtins") before it reaches the tracked keys.                  *)
(***************************************************************************)
CACHE_DURATION == 60000

TrackedApps == <<"windowsterminal">>
CacheKeys == {executableName(TrackedApps[n]) : n \in 1..Len(TrackedApps)}
Instants == {0, CACHE_DURATION - 1, CACHE_DURATION, CACHE_DURATION + 1}

NoEntry == [has |-> FALSE, installed |-> FALSE, timestamp |-> 0, stale |-> FALSE]
NoQuery ==
    [state |-> "none", made |-> 0, probed |-> FALSE, result |-> "none",
     afterClear |-> FALSE, spansClear |-> FALSE, hitStale |-> FALSE]
IdleStream ==
    [pc |-> "idle", idx |-> 0, available |-> {}, qs |-> [k \in CacheKeys |-> NoQuery]]

\* A variant of CacheFresh with `<=` for `<`.
CacheFreshInclusive(entry, time) ==
    entry.has /\ time - entry.timestamp <= CACHE_DURATION

\* `cached && Date.now() - cached.timestamp < CACHE_DURATION`
CacheFresh(entry, time) ==
    entry.has /\ time - entry.timestamp < CACHE_DURATION

\* checkTerminalAppInstalled(key) up to its first suspension, against `cache`:
\* the cached answer, or a probe begun.  Off Windows the answer is true.
MakeQuery(cache, key, pend) ==
    IF ~platformWin
    THEN [NoQuery EXCEPT !.state = "answered", !.made = now, !.result = "true",
                         !.afterClear = pend[key]]
    ELSE IF CacheFresh(cache[key], now)
    THEN [NoQuery EXCEPT !.state = "answered", !.made = now,
                         !.result = B2S(cache[key].installed),
                         !.afterClear = pend[key], !.hitStale = cache[key].stale]
    ELSE [NoQuery EXCEPT !.state = "probing", !.made = now, !.probed = TRUE,
                         !.afterClear = pend[key]]

\* The loop over Object.entries(TERMINAL_APPS) of a stream, from entry n, up to
\* the next probe or the end.  builtin: cmd and powershell are taken as
\* installed without a query (checkInstalledTerminalApps on Windows).
RECURSIVE RunStream(_, _, _, _, _)
RunStream(st, builtin, n, cache, pend) ==
    IF n > Len(TrackedApps)
    THEN [stream |-> [st EXCEPT !.pc = "done", !.idx = n], pend |-> pend]
    ELSE LET app == TrackedApps[n]
             key == executableName(app)
             q == MakeQuery(cache, key, pend)
         IN IF builtin /\ app \in {"cmd", "powershell"} /\ platformWin
            THEN RunStream([st EXCEPT !.available = @ \cup {app}], builtin, n + 1,
                           cache, pend)
            ELSE IF q.state = "probing"
            THEN [stream |-> [st EXCEPT !.pc = "probing", !.idx = n, !.qs[key] = q],
                  pend |-> [pend EXCEPT ![key] = FALSE]]
            ELSE RunStream([st EXCEPT !.qs[key] = q,
                                      !.available = IF q.result = "true"
                                                    THEN @ \cup {app} ELSE @],
                           builtin, n + 1, cache, [pend EXCEPT ![key] = FALSE])

\* display(), once checkInstalledTerminalApps has resolved: a selection that is
\* neither 'custom' nor truthy in availableApps is reset.
DropdownReset(s, stream) ==
    IF /\ stream.pc = "done"
       /\ s.terminalApp # "custom"
       /\ s.terminalApp \notin stream.available
       /\ s.terminalApp \notin ObjectPrototypeKeys
    THEN [s EXCEPT !.terminalApp =
            IF "cmd" \in stream.available THEN "cmd"
            ELSE IF stream.available # {}
            THEN TrackedApps[CHOOSE n \in 1..Len(TrackedApps) :
                               /\ TrackedApps[n] \in stream.available
                               /\ \A m \in 1..(n - 1) : TrackedApps[m] \notin stream.available]
            ELSE "cmd"]
    ELSE s

\* A variant of ClearCache that drops only the entries that have expired.
ClearExpiredOnly(cache) ==
    [k \in CacheKeys |-> IF CacheFresh(cache[k], now) THEN cache[k] ELSE NoEntry]

\* terminalAppCache.clear()
ClearCache(cache) == [k \in CacheKeys |-> NoEntry]

\* A probe that was in flight when the cache was cleared (history).
MarkSpanning(st) ==
    [st EXCEPT !.qs = [k \in CacheKeys |->
                         IF st.qs[k].state = "probing"
                         THEN [st.qs[k] EXCEPT !.spansClear = TRUE] ELSE st.qs[k]]]

InitCache ==
    /\ terminalAppCache = [k \in CacheKeys |-> NoEntry]
    /\ now = 0
    /\ display = [d \in 1..MaxDisplay |-> [drop |-> IdleStream, dbg |-> IdleStream]]
    /\ pendingClear = [k \in CacheKeys |-> FALSE]

\* display() of the settings tab: checkAndDisplayClaudeStatus begins its status
\* check, checkInstalledTerminalApps begins its loop.
StartDisplay(d, s) ==
    LET run == RunStream(IdleStream, TRUE, 1, terminalAppCache, pendingClear) IN
    /\ display[d].drop.pc = "idle"
    /\ \A e \in 1..(d - 1) : display[e].drop.pc # "idle"
    /\ display' = [display EXCEPT ![d] = [drop |-> run.stream,
                                          dbg |-> [IdleStream EXCEPT !.pc = "status"]]]
    /\ pendingClear' = run.pend
    /\ settings' = DropdownReset(s, run.stream)

\* The settings tab is opened.
Display(d) ==
    /\ StartDisplay(d, settings)
    /\ UNCHANGED <<terminalAppCache, now, present>>
    /\ UNCHANGED <<claudeInstalled, platformWin, fs, activeFile, inv, uiDetecting,
                   overrideChanged, lastCheck>>
    /\ UNCHANGED settingsVars

\* "Show debug information" toggle: onChange(value) saves and calls display().
ToggleDebug(d, value) ==
    /\ value # settings.showDebugInfo
    /\ StartDisplay(d, [settings EXCEPT !.showDebugInfo = value])
    /\ UNCHANGED <<terminalAppCache, now, present>>
    /\ UNCHANGED <<claudeInstalled, platformWin, fs, activeFile, inv, uiDetecting,
                   overrideChanged, lastCheck>>
    /\ UNCHANGED settingsVars

\* checkAndDisplayClaudeStatus after its status check: with showDebugInfo the
\* cache is cleared and the probes of cmd.exe and powershell.exe begin.
StatusDone(d) ==
    /\ display[d].dbg.pc = "status"
    /\ IF settings.showDebugInfo
       THEN /\ terminalAppCache' = ClearCache(terminalAppCache)
            /\ pendingClear' = [k \in CacheKeys |-> TRUE]
            /\ display' = [e \in 1..MaxDisplay |->
                             IF e = d
                             THEN [drop |-> MarkSpanning(display[e].drop),
                                   dbg |-> [display[e].dbg EXCEPT !.pc = "builtins"]]
                             ELSE [drop |-> MarkSpanning(display[e].drop),
                                   dbg |-> MarkSpanning(display[e].dbg)]]
       ELSE /\ display' = [display EXCEPT ![d].dbg.pc = "done"]
            /\ UNCHANGED <<terminalAppCache, pendingClear>>
    /\ UNCHANGED <<now, present>>
    /\ UNCHANGED launchVars
    /\ UNCHANGED settingsVars

\* The debug list's probes of cmd.exe and powershell.exe have answered: its
\* loop goes on with the other terminal apps.
BuiltinsDone(d) ==
    /\ display[d].dbg.pc = "builtins"
    /\ LET run == RunStream(display[d].dbg, FALSE, 1, terminalAppCache, pendingClear) IN
       /\ display' = [display EXCEPT ![d].dbg = run.stream]
       /\ pendingClear' = run.pend
    /\ UNCHANGED <<terminalAppCache, now, present>>
    /\ UNCHANGED launchVars
    /\ UNCHANGED settingsVars

\* The probe of a stream's query ends: the entry is stored with the time of
\* the answer, and the stream's loop goes on.  A probe that errors answers false.
ProbeDone(d, kind, err) ==
    /\ display[d][kind].pc = "probing"
    /\ LET st == display[d][kind]
           app == TrackedApps[st.idx]
           key == executableName(app)
           installed == ~err /\ key \in present
           cache == [terminalAppCache EXCEPT ![key] =
                       [has |-> TRUE, installed |-> installed, timestamp |-> now,
                        stale |-> st.qs[key].spansClear]]
           answered == [st EXCEPT !.qs[key].state = "answered",
                                  !.qs[key].result = B2S(installed),
                                  !.available = IF installed THEN @ \cup {app} ELSE @]
           run == RunStream(answered, kind = "drop", st.idx + 1, cache, pendingClear)
       IN /\ terminalAppCache' = cache
          /\ pendingClear' = run.pend
          /\ display' = [display EXCEPT ![d][kind] = run.stream]
          /\ settings' = IF kind = "drop" THEN DropdownReset(settings, run.stream)
                         ELSE settings
    /\ UNCHANGED <<now, present>>
    /\ UNCHANGED <<claudeInstalled, platformWin, fs, activeFile, inv, uiDetecting,
                   overrideChanged, lastCheck>>
    /\ UNCHANGED settingsVars

\* Time passes.
Tick(t) ==
    /\ t \in Instants
    /\ t > now
    /\ now' = t
    /\ UNCHANGED <<terminalAppCache, present, display, pendingClear>>
    /\ UNCHANGED launchVars
    /\ UNCHANGED settingsVars

\* A terminal application is installed or removed.
EnvFlip(key) ==
    /\ present' = IF key \in present THEN present \ {key} ELSE present \cup {key}
    /\ UNCHANGED <<terminalAppCache, now, display, pendingClear>>
    /\ UNCHANGED launchVars
    /\ UNCHANGED settingsVars

(***************************************************************************)
(* Init: the plugin after onload.  loadSettings has merged the stored      *)
(* record over DEFAULT_SETTINGS, and on Windows onload has called          *)
(* checkClaudeCodeInstallation without awaiting it.                        *)
(***************************************************************************)
InitLaunch(stored, files, file) ==
    /\ settings = stored
    /\ loaded = TRUE
    /\ dataFile = NoData
    /\ defaultSettings = DEFAULT_SETTINGS
    /\ sharedArrays = {}
    /\ claudeInstalled = NULL
    /\ platformWin \in BOOLEAN
    /\ fs = files
    /\ activeFile = file
    /\ InitCache
    /\ present = {}
    /\ uiDetecting = FALSE
    /\ overrideChanged = FALSE
    /\ lastCheck = [caller |-> 0, afterChange |-> FALSE, probed |-> platformWin]
    /\ inv = [i \in 0..MaxLaunch |->
                IF i = 0 /\ platformWin
                THEN [IdleInv EXCEPT !.pc = IF stored.useCustomClaudePath
                                           THEN "verifying" ELSE "detecting",
                                     !.verifyPath = IF stored.useCustomClaudePath
                                                    THEN stored.claudeCodePath ELSE ""]
                ELSE IF i = 0 THEN [IdleInv EXCEPT !.pc = "done"]
                ELSE IdleInv]

(***************************************************************************)
(* The launch: openClaudeCode                                              *)
(***************************************************************************)
\* The ribbon icon, the command or the hotkey calls openClaudeCode.
Trigger(i) ==
    /\ loaded
    /\ i \in 1..MaxLaunch
    /\ inv[i].pc = "idle"
    /\ \A j \in 1..(i - 1) : inv[j].pc # "idle"
    /\ IF ~platformWin
       THEN /\ inv' = [inv EXCEPT ![i] =
                         [@ EXCEPT !.pc = "done", !.outcome = "NotSupported",
                                   !.notices = {"only available on Windows desktop"}]]
            /\ UNCHANGED <<lastCheck, overrideChanged>>
       ELSE /\ inv' = [inv EXCEPT ![i] = BeginCheck(i, @, settings)]
            /\ lastCheck' = CheckRecord(i)
            /\ overrideChanged' = FALSE
    /\ UNCHANGED <<settings, claudeInstalled, platformWin, fs, activeFile, uiDetecting>>
    /\ UNCHANGED cacheVars
    /\ UNCHANGED settingsVars

\* verifyClaudePath(settings.claudeCodePath) answers.
VerifyDone(i, err) ==
    /\ inv[i].pc = "verifying"
    /\ LET installed == verifyClaudePath(inv[i].verifyPath, fs, err) IN
       /\ claudeInstalled' = B2S(installed)
       /\ inv' = [inv EXCEPT ![i] = Resume(i, @, settings, installed)]
    /\ UNCHANGED <<settings, platformWin, fs, activeFile, uiDetecting,
                   overrideChanged, lastCheck>>
    /\ UNCHANGED cacheVars
    /\ UNCHANGED settingsVars

\* detectClaudePath() answers; a detected path is stored and saveSettings begins.
DetectDone(i, err) ==
    /\ inv[i].pc = "detecting"
    /\ LET detectedPath == detectClaudePath(fs, err) IN
       IF detectedPath # NULL
       THEN /\ settings' = [settings EXCEPT !.claudeCodePath = detectedPath]
            /\ inv' = [inv EXCEPT ![i].pc = "saving"]
            /\ UNCHANGED claudeInstalled
       ELSE /\ claudeInstalled' = "false"
            /\ inv' = [inv EXCEPT ![i] = Resume(i, @, settings, FALSE)]
            /\ UNCHANGED settings
    /\ UNCHANGED <<platformWin, fs, activeFile, uiDetecting, overrideChanged, lastCheck>>
    /\ UNCHANGED cacheVars
    /\ UNCHANGED settingsVars

\* saveSettings() of checkClaudeCodeInstallation ends; a failed save is caught.
SaveDone(i, ok) ==
    /\ inv[i].pc = "saving"
    /\ claudeInstalled' = B2S(ok)
    /\ inv' = [inv EXCEPT ![i] = Resume(i, @, settings, ok)]
    /\ UNCHANGED <<settings, platformWin, fs, activeFile, uiDetecting,
                   overrideChanged, lastCheck>>
    /\ UNCHANGED cacheVars
    /\ UNCHANGED settingsVars

\* A variant of OnSpawnError that spawns the command once more.
OnSpawnErrorRetry(rec) ==
    [rec EXCEPT !.spawnResult = "error", !.primarySpawns = rec.primarySpawns + 1]

\* The primary spawn's execAsync rejects: the error reaches openClaudeCode's catch.
OnSpawnError(rec) ==
    [rec EXCEPT !.pc = "done", !.outcome = "Failed", !.spawnResult = "error",
                !.error = IF rec.term = "custom"
                          THEN "CustomCommandFailed" ELSE "PrimarySpawnFailed",
                !.notices = rec.notices \cup {"Failed to open Claude Code"}]

\* The primary spawn's execAsync resolves: handleCodeEditor sets its timer, and
\* openClaudeCode ends with its notice (none for VS Code and Cursor).
OnSpawnOk(rec, s) ==
    LET editorName == IF s.terminalApp = "vscode" THEN "VS Code" ELSE "Cursor"
        opening == IF s.terminalApp \notin EditorKeys
                   THEN {"Opening Claude Code in"} ELSE {}
    IN IF rec.editor
       THEN [rec EXCEPT !.pc = "done", !.outcome = "Done", !.spawnResult = "ok",
                        !.editorName = editorName,
                        !.secondary = "scheduled",
                        !.notices = rec.notices \cup {"Opening " \o editorName} \cup opening]
       ELSE [rec EXCEPT !.pc = "done", !.outcome = "Done", !.spawnResult = "ok",
                        !.notices = rec.notices \cup opening]

\* The primary spawn's execAsync ends.
SpawnDone(i, ok) ==
    /\ inv[i].pc = "spawning"
    /\ inv' = [inv EXCEPT ![i] = IF ok THEN OnSpawnOk(@, settings) ELSE OnSpawnError(@)]
    /\ UNCHANGED <<settings, claudeInstalled, platformWin, fs, activeFile, uiDetecting,
                   overrideChanged, lastCheck>>
    /\ UNCHANGED cacheVars
    /\ UNCHANGED settingsVars

\* The setTimeout callback of handleCodeEditor starts the keystroke script.
TimerFire(i) ==
    /\ inv[i].secondary = "scheduled"
    /\ inv' = [inv EXCEPT ![i] =
          [@ EXCEPT !.secondary = "typing",
                    !.keystroke = IF settings.terminalApp = "vscode"
                                  THEN "^{backquote}" ELSE "^j",
                    !.typed = inv[i].claudeCommand]]
    /\ UNCHANGED <<settings, claudeInstalled, platformWin, fs, activeFile, uiDetecting,
                   overrideChanged, lastCheck>>
    /\ UNCHANGED cacheVars
    /\ UNCHANGED settingsVars

\* A variant of OnTypingError that fails the launch.
OnTypingErrorFailsLaunch(rec) ==
    [rec EXCEPT !.secondary = "failed", !.outcome = "Failed",
                !.notices = rec.notices \cup {"Failed to open Claude Code"}]

\* runPowerShellScript rejects: the timer callback's catch shows its notice.
OnTypingError(rec) ==
    [rec EXCEPT !.secondary = "failed",
                !.notices = rec.notices \cup {"Failed to open terminal in " \o rec.editorName}]

\* runPowerShellScript ends.
TypingDone(i, ok) ==
    /\ inv[i].secondary = "typing"
    /\ inv' = [inv EXCEPT ![i] = IF ok THEN [@ EXCEPT !.secondary = "ok"]
                                 ELSE OnTypingError(@)]
    /\ UNCHANGED <<settings, claudeInstalled, platformWin, fs, activeFile, uiDetecting,
                   overrideChanged, lastCheck>>
    /\ UNCHANGED cacheVars
    /\ UNCHANGED settingsVars

(***************************************************************************)
(* The settings tab's handlers that bear on a launch                       *)
(***************************************************************************)
\* "Claude Code custom path" toggle: onChange(value)
ToggleCustomClaudePath(value) ==
    /\ value # settings.useCustomClaudePath
    /\ ~uiDetecting
    /\ settings' = [settings EXCEPT !.useCustomClaudePath = value]
    /\ uiDetecting' = ~value
    /\ overrideChanged' = TRUE
    /\ UNCHANGED <<claudeInstalled, platformWin, fs, activeFile, inv, lastCheck>>
    /\ UNCHANGED cacheVars
    /\ UNCHANGED settingsVars

\* The toggle's detectClaudePath() answers: "reset to auto-detected path".
ToggleDetectDone(err) ==
    /\ uiDetecting
    /\ uiDetecting' = FALSE
    /\ LET detectedPath == detectClaudePath(fs, err) IN
       settings' = IF detectedPath # NULL
                   THEN [settings EXCEPT !.claudeCodePath = detectedPath]
                   ELSE settings
    /\ UNCHANGED <<claudeInstalled, platformWin, fs, activeFile, inv,
                   overrideChanged, lastCheck>>
    /\ UNCHANGED cacheVars
    /\ UNCHANGED settingsVars

\* The path text input, shown while the custom path is enabled: onChange(value)
SetClaudeCodePath(value) ==
    /\ settings.useCustomClaudePath
    /\ value # settings.claudeCodePath
    /\ settings' = [settings EXCEPT !.claudeCodePath = value]
    /\ overrideChanged' = TRUE
    /\ UNCHANGED <<claudeInstalled, platformWin, fs, activeFile, inv, uiDetecting,
                   lastCheck>>
    /\ UNCHANGED cacheVars
    /\ UNCHANGED settingsVars

\* display(): once checkInstalledTerminalApps has answered `available`, a
\* selection that is neither 'custom' nor truthy in availableApps (an object
\* literal: inherited properties are truthy) is reset to the first available key.
DisplayTerminalDropdown(available) ==
    /\ available \subseteq TerminalKeys
    /\ IF platformWin THEN {"cmd", "powershell"} \subseteq available
       ELSE available = TerminalKeys
    /\ settings.terminalApp # "custom"
    /\ settings.terminalApp \notin available
    /\ settings.terminalApp \notin ObjectPrototypeKeys
    /\ settings' = [settings EXCEPT !.terminalApp = "cmd"]
    /\ UNCHANGED <<claudeInstalled, platformWin, fs, activeFile, inv, uiDetecting,
                   overrideChanged, lastCheck>>
    /\ UNCHANGED cacheVars
    /\ UNCHANGED settingsVars

\* The terminal dropdown: onChange(value), value an available app or 'custom'
SetTerminalApp(value) ==
    /\ value \in TerminalKeys \cup {"custom"}
    /\ value # settings.terminalApp
    /\ settings' = [settings EXCEPT !.terminalApp = value]
    /\ UNCHANGED <<claudeInstalled, platformWin, fs, activeFile, inv, uiDetecting,
                   overrideChanged, lastCheck>>
    /\ UNCHANGED cacheVars
    /\ UNCHANGED settingsVars

\* The custom command text area, shown while 'custom' is selected
SetCustomCommand(value) ==
    /\ settings.terminalApp = "custom"
    /\ value # settings.customCommand
    /\ settings' = [settings EXCEPT !.customCommand = value]
    /\ UNCHANGED <<claudeInstalled, platformWin, fs, activeFile, inv, uiDetecting,
                   overrideChanged, lastCheck>>
    /\ UNCHANGED cacheVars
    /\ UNCHANGED settingsVars

\* "Continue last session" toggle: onChange(value)
SetContinueLastSession(value) ==
    /\ value # settings.continueLastSession
    /\ settings' = [settings EXCEPT !.continueLastSession = value]
    /\ UNCHANGED <<claudeInstalled, platformWin, fs, activeFile, inv, uiDetecting,
                   overrideChanged, lastCheck>>
    /\ UNCHANGED cacheVars
    /\ UNCHANGED settingsVars

(***************************************************************************)
(* The environment: the assistant is installed or removed, the user opens  *)
(* another note.                                                           *)
(***************************************************************************)
EnvChange(files) ==
    /\ files # fs
    /\ fs' = files
    /\ UNCHANGED <<settings, claudeInstalled, platformWin, activeFile, inv, uiDetecting,
                   overrideChanged, lastCheck>>
    /\ UNCHANGED cacheVars
    /\ UNCHANGED settingsVars

OpenFile(file) ==
    /\ file # activeFile
    /\ activeFile' = file
    /\ UNCHANGED <<settings, claudeInstalled, platformWin, fs, inv, uiDetecting,
                   overrideChanged, lastCheck>>
    /\ UNCHANGED cacheVars
    /\ UNCHANGED settingsVars

(***************************************************************************)
(* Spec: the launch and its dispatch.  The stored settings name any        *)
(* terminal id; the assistant is found by detection unless a probe errors. *)
(***************************************************************************)
SampleTemplate == <<"start ", CWD_PLACEHOLDER, " ", CLAUDE_PLACEHOLDER>>
FileInFolder ==
    [exists |-> TRUE, hasParent |-> TRUE, parentPath |-> <<"Projects", SLASH, "2024">>]

Init ==
    \E t \in LaunchTerminalIds :
        InitLaunch([DEFAULT_SETTINGS EXCEPT !.terminalApp = t,
                                            !.customCommand = SampleTemplate],
                   {StdClaudePath}, FileInFolder)

Next ==
    \/ \E i \in 1..MaxLaunch : Trigger(i)
    \/ \E i \in 0..MaxLaunch, err \in BOOLEAN : DetectDone(i, err)
    \/ \E i \in 0..MaxLaunch, ok \in BOOLEAN : SaveDone(i, ok)
    \/ \E i \in 1..MaxLaunch, ok \in BOOLEAN : SpawnDone(i, ok)
    \/ \E i \in 1..MaxLaunch : TimerFire(i)
    \/ \E i \in 1..MaxLaunch, ok \in BOOLEAN : TypingDone(i, ok)
    \/ \E available \in SUBSET TerminalKeys : DisplayTerminalDropdown(available)
    \/ \E value \in TerminalKeys \cup {"custom"} : SetTerminalApp(value)

Spec == Init /\ [][Next]_vars

(***************************************************************************)
(* loadSettings and the settings tab's launch options.                     *)
(* Object.assign({}, DEFAULT_SETTINGS, data) copies the own properties of  *)
(* DEFAULT_SETTINGS and then those of data into a new object; a property   *)
(* holding an array is copied as a reference, so an array field that data  *)
(* lacks is, in settings, the array object of DEFAULT_SETTINGS itself.     *)
(***************************************************************************)
ArrayFields == {"allowedTools", "deniedTools", "additionalDirectories"}

\* A variant of loadSettings in which the defaults win over the stored values.
loadSettingsDefaultsWin(defaults, data) ==
    [f \in DOMAIN defaults \cup DOMAIN data |->
        IF f \in DOMAIN defaults THEN defaults[f] ELSE data[f]]

loadSettings(defaults, data) ==
    [f \in DOMAIN defaults \cup DOMAIN data |->
        IF f \in DOMAIN data THEN data[f] ELSE defaults[f]]

\* onload: await loadSettings(), the commands and the settings tab are
\* registered, and on Windows checkClaudeCodeInstallation() is called.
LoadSettings ==
    /\ ~loaded
    /\ loaded' = TRUE
    /\ settings' = loadSettings(defaultSettings, dataFile)
    /\ sharedArrays' = ArrayFields \ DOMAIN dataFile
    /\ dataFile' = NoData
    /\ inv' = [inv EXCEPT ![0] = IF platformWin THEN BeginCheck(0, @, settings')
                                 ELSE [@ EXCEPT !.pc = "done"]]
    /\ lastCheck' = [caller |-> 0, afterChange |-> FALSE, probed |-> platformWin]
    /\ UNCHANGED <<claudeInstalled, platformWin, fs, activeFile, uiDetecting,
                   overrideChanged, defaultSettings>>
    /\ UNCHANGED cacheVars

\* parseInt(value) of a text without 0x prefix: leading blanks, a sign, then
\* the longest run of decimal digits; NaN when that run is empty.
DigitChars == <<"0", "1", "2", "3", "4", "5", "6", "7", "8", "9">>
IsDigit(c) == \E d \in 1..10 : DigitChars[d] = c
DigitValue(c) == (CHOOSE d \in 1..10 : DigitChars[d] = c) - 1

RECURSIVE ParseDigits(_, _, _)
ParseDigits(text, acc, seen) ==
    IF text # << >> /\ IsDigit(Head(text))
    THEN ParseDigits(Tail(text), acc * 10 + DigitValue(Head(text)), TRUE)
    ELSE [nan |-> ~seen, value |-> acc]

parseInt(text) ==
    LET t == TrimLeft(text)
        neg == t # << >> /\ Head(t) = "-"
        signed == t # << >> /\ Head(t) \in {"-", "+"}
        r == ParseDigits(IF signed THEN Tail(t) ELSE t, 0, FALSE)
    IN [nan |-> r.nan, value |-> IF neg THEN 0 - r.value ELSE r.value]

\* !isNaN(numValue) && numValue >= 500 && numValue <= 10000
DelayAccepted(numValue) ==
    ~numValue.nan /\ numValue.value >= 500 /\ numValue.value <= 10000

\* "Terminal activation delay" text: onChange(value)
SetTerminalDelay(value) ==
    /\ loaded
    /\ LET numValue == parseInt(value) IN
       settings' = IF DelayAccepted(numValue)
                   THEN [settings EXCEPT !.terminalDelay = numValue.value]
                   ELSE settings
    /\ UNCHANGED <<claudeInstalled, platformWin, fs, activeFile, inv, uiDetecting,
                   overrideChanged, lastCheck>>
    /\ UNCHANGED cacheVars
    /\ UNCHANGED settingsVars

Includes(list, x) == \E n \in 1..Len(list) : list[n] = x
Without(list, x) == SelectSeq(list, LAMBDA t : t # x)

EditTools == <<"Edit", "MultiEdit", "Write", "NotebookEdit">>
AllTools == <<"Bash", "Edit", "Write", "MultiEdit", "WebFetch", "WebSearch", "NotebookEdit">>
PermissionModes == {"default", "acceptEdits", "bypassPermissions", "plan", "custom"}

\* "Permission mode" dropdown: onChange(value).  Every mode but 'custom'
\* assigns a new array to allowedTools.
SetPermissionMode(value) ==
    /\ loaded
    /\ value \in PermissionModes
    /\ value # settings.permissionMode
    /\ settings' =
         CASE value = "acceptEdits" ->
                [settings EXCEPT !.permissionMode = value, !.allowedTools = EditTools]
           [] value = "bypassPermissions" ->
                [settings EXCEPT !.permissionMode = value, !.allowedTools = AllTools,
                                 !.dangerouslySkipPermissions = FALSE]
           [] value = "plan" ->
                [settings EXCEPT !.permissionMode = value, !.allowedTools = << >>]
           [] value = "default" ->
                [settings EXCEPT !.permissionMode = value, !.allowedTools = << >>,
                                 !.dangerouslySkipPermissions = FALSE]
           [] value = "custom" ->
                [settings EXCEPT !.permissionMode = value]
    /\ sharedArrays' = IF value = "custom" THEN sharedArrays
                       ELSE sharedArrays \ {"allowedTools"}
    /\ UNCHANGED <<claudeInstalled, platformWin, fs, activeFile, inv, uiDetecting,
                   overrideChanged, lastCheck>>
    /\ UNCHANGED cacheVars
    /\ UNCHANGED <<loaded, dataFile, defaultSettings>>

\* A variant of DeniedAfterAllow that leaves deniedTools as it is.
DeniedKept(denied, tool) == denied

\* deniedTools after a tool was toggled on: "remove from denied tools if present".
DeniedAfterAllow(denied, tool) ==
    IF Includes(denied, tool) THEN Without(denied, tool) ELSE denied

\* A tool's toggle, shown while the mode is 'custom': onChange(value).
\* push() changes the array in place; filter() makes a new array.
ToggleTool(tool, value) ==
    /\ loaded
    /\ settings.permissionMode = "custom"
    /\ Includes(AllTools, tool)
    /\ value = ~Includes(settings.allowedTools, tool)
    /\ IF value
       THEN /\ settings' =
                 [settings EXCEPT
                    !.allowedTools = IF ~Includes(@, tool) THEN Append(@, tool) ELSE @,
                    !.deniedTools = DeniedAfterAllow(@, tool)]
            /\ defaultSettings' =
                 IF "allowedTools" \in sharedArrays /\ ~Includes(settings.allowedTools, tool)
                 THEN [defaultSettings EXCEPT !.allowedTools = Append(@, tool)]
                 ELSE defaultSettings
            /\ sharedArrays' = IF Includes(settings.deniedTools, tool)
                               THEN sharedArrays \ {"deniedTools"}
                               ELSE sharedArrays
       ELSE /\ settings' = [settings EXCEPT !.allowedTools = Without(@, tool)]
            /\ sharedArrays' = sharedArrays \ {"allowedTools"}
            /\ UNCHANGED defaultSettings
    /\ UNCHANGED <<claudeInstalled, platformWin, fs, activeFile, inv, uiDetecting,
                   overrideChanged, lastCheck>>
    /\ UNCHANGED cacheVars
    /\ UNCHANGED <<loaded, dataFile>>

(***************************************************************************)
(* SpecSettings: the plugin is loaded from a stored record that holds some *)
(* of the fields, the user edits the delay, the permission mode and the    *)
(* tools, and launches.                                                    *)
(***************************************************************************)
StoredFields ==
    {"terminalApp", "terminalDelay", "permissionMode", "allowedTools", "deniedTools",
     "legacyOption"}
StoredDelays == {0, 100, 750, 20000}
StoredData(S, delay, mode, tools) ==
    [f \in S |->
        CASE f = "terminalApp" -> "vscode"
          [] f = "terminalDelay" -> delay
          [] f = "permissionMode" -> mode
          [] f = "allowedTools" -> tools
          [] f = "deniedTools" -> <<"Bash">>
          [] f = "legacyOption" -> TRUE]
DelayTexts ==
    { <<"4", "9", "9">>, <<"5", "0", "0">>, <<"1", "0", "0", "0", "0">>,
      <<"1", "0", "0", "0", "1">>, <<"-", "9", "0", "0">>, <<" ", "9", "0", "0", "m", "s">>,
      <<"f", "a", "s", "t">>, << >> }
ToggledTools == {"Bash", "Edit"}

\* The plugin before onload, with a stored record of the fields S.
InitStored(S, delay, mode, tools) ==
    /\ dataFile = StoredData(S, delay, mode, tools)
    /\ loaded = FALSE
    /\ settings = NoData
    /\ defaultSettings = DEFAULT_SETTINGS
    /\ sharedArrays = {}
    /\ claudeInstalled = NULL
    /\ platformWin = TRUE
    /\ fs = {StdClaudePath}
    /\ activeFile = FileInFolder
    /\ uiDetecting = FALSE
    /\ overrideChanged = FALSE
    /\ lastCheck = [caller |-> 0, afterChange |-> FALSE, probed |-> FALSE]
    /\ inv = [i \in 0..MaxLaunch |-> IdleInv]
    /\ InitCache
    /\ present = {}

InitSettings ==
    \E S \in SUBSET StoredFields, delay \in {0, 100},
       mode \in {"default", "custom"}, tools \in {<< >>, <<"Edit">>} :
        /\ ("terminalDelay" \notin S => delay = 0)
        /\ ("permissionMode" \notin S => mode = "default")
        /\ ("allowedTools" \notin S => tools = << >>)
        /\ InitStored(S, delay, mode, tools)

NextSettings ==
    \/ LoadSettings
    \/ \E value \in PermissionModes : SetPermissionMode(value)
    \/ \E tool \in ToggledTools, value \in BOOLEAN : ToggleTool(tool, value)
    \/ \E i \in 0..MaxLaunch, err \in BOOLEAN : DetectDone(i, err)
    \/ \E i \in 0..MaxLaunch, ok \in BOOLEAN : SaveDone(i, ok)

SpecSettings == InitSettings /\ [][NextSettings]_vars

(***************************************************************************)
(* SpecDelay: the plugin is loaded from a stored record with or without a  *)
(* delay, the user edits the delay, and launches in VS Code.               *)
(***************************************************************************)
InitDelay ==
    \E S \in {{"terminalApp"}, {"terminalApp", "terminalDelay"}},
       delay \in StoredDelays :
        /\ ("terminalDelay" \notin S => delay = 0)
        /\ InitStored(S, delay, "default", << >>)

NextDelay ==
    \/ LoadSettings
    \/ \E value \in DelayTexts : SetTerminalDelay(value)
    \/ \E i \in 1..MaxLaunch : Trigger(i)
    \/ \E i \in 0..MaxLaunch, err \in BOOLEAN : DetectDone(i, err)
    \/ \E i \in 0..MaxLaunch, ok \in BOOLEAN : SaveDone(i, ok)
    \/ \E i \in 1..MaxLaunch, ok \in BOOLEAN : SpawnDone(i, ok)

SpecDelay == InitDelay /\ [][NextDelay]_vars

(***************************************************************************)
(* SpecPath: launches in Command Prompt with the vault path settings and   *)
(* the active note drawn from bounded sets; the user opens other notes.    *)
(***************************************************************************)
FileAtRoot == [exists |-> TRUE, hasParent |-> TRUE, parentPath |-> <<SLASH>>]
FileWithoutParent == [exists |-> TRUE, hasParent |-> FALSE, parentPath |-> << >>]
FileWithEmptyParentPath == [exists |-> TRUE, hasParent |-> TRUE, parentPath |-> << >>]
FileInDeepFolder ==
    [exists |-> TRUE, hasParent |-> TRUE,
     parentPath |-> <<"Areas", SLASH, "Work", SLASH, "Notes">>]
PathFiles ==
    {NoFile, FileInFolder, FileAtRoot, FileWithoutParent, FileWithEmptyParentPath,
     FileInDeepFolder}
OverridePaths == {<< >>, <<"D:", BS, "Notes">>}

InitPath ==
    \E always \in BOOLEAN, use \in BOOLEAN, v \in OverridePaths, file \in PathFiles :
        InitLaunch([DEFAULT_SETTINGS EXCEPT !.alwaysOpenVaultRoot = always,
                                            !.useCustomVaultPath = use,
                                            !.customVaultPath = v],
                   {StdClaudePath}, file)

NextPath ==
    \/ \E i \in 1..MaxLaunch : Trigger(i)
    \/ \E i \in 0..MaxLaunch, err \in BOOLEAN : DetectDone(i, err)
    \/ \E i \in 0..MaxLaunch, ok \in BOOLEAN : SaveDone(i, ok)
    \/ \E i \in 1..MaxLaunch, ok \in BOOLEAN : SpawnDone(i, ok)
    \/ \E file \in PathFiles : OpenFile(file)

SpecPath == InitPath /\ [][NextPath]_vars

(***************************************************************************)
(* SpecOptions: launches in Command Prompt with every launch option of the *)
(* stored settings drawn from bounded sets.                                *)
(***************************************************************************)
DirA == <<"D:", BS, "docs">>
DirB == <<"E:", BS, "src">>
AdditionalDirectoryLists == { << >>, <<DirA, <<" ">>, DirB>>, <<DirB, << >>, DirA>> }

InitOptions ==
    \E custom \in BOOLEAN, mode \in {"default", "plan"}, skip \in BOOLEAN,
       allowed \in {<< >>, <<"Edit", "Bash">>}, denied \in {<< >>, <<"WebFetch">>},
       model \in {"default", "opus"}, continue \in BOOLEAN, turns \in {10, 25},
       verbose \in BOOLEAN, dirs \in AdditionalDirectoryLists :
        InitLaunch([DEFAULT_SETTINGS EXCEPT
                       !.useCustomClaudePath = custom,
                       !.claudeCodePath = IF custom THEN OtherClaudePath ELSE "claude",
                       !.permissionMode = mode,
                       !.dangerouslySkipPermissions = skip,
                       !.allowedTools = allowed,
                       !.deniedTools = denied,
                       !.claudeModel = model,
                       !.continueLastSession = continue,
                       !.maxTurns = turns,
                       !.verboseMode = verbose,
                       !.additionalDirectories = dirs],
                   ClaudePaths, FileInFolder)

NextOptions ==
    \/ \E i \in 1..MaxLaunch : Trigger(i)
    \/ \E i \in 0..MaxLaunch, err \in BOOLEAN : VerifyDone(i, err)
    \/ \E i \in 0..MaxLaunch, err \in BOOLEAN : DetectDone(i, err)
    \/ \E i \in 0..MaxLaunch, ok \in BOOLEAN : SaveDone(i, ok)
    \/ \E i \in 1..MaxLaunch, ok \in BOOLEAN : SpawnDone(i, ok)

SpecOptions == InitOptions /\ [][NextOptions]_vars

(***************************************************************************)
(* SpecEscape: launches in Command Prompt with one additional directory    *)
(* whose characters are drawn from letters and the quote.                  *)
(***************************************************************************)
MaxPathLen == 3

PathChars == {"a", "b", Q}
EscapePaths == UNION {[1..n -> PathChars] : n \in 1..MaxPathLen}

InitEscape ==
    \E dir \in EscapePaths :
        InitLaunch([DEFAULT_SETTINGS EXCEPT !.additionalDirectories = <<dir>>],
                   {StdClaudePath}, FileInFolder)

NextEscape ==
    \/ \E i \in 1..MaxLaunch : Trigger(i)
    \/ \E i \in 0..MaxLaunch, err \in BOOLEAN : DetectDone(i, err)
    \/ \E i \in 0..MaxLaunch, ok \in BOOLEAN : SaveDone(i, ok)
    \/ \E i \in 1..MaxLaunch, ok \in BOOLEAN : SpawnDone(i, ok)

SpecEscape == InitEscape /\ [][NextEscape]_vars

(***************************************************************************)
(* SpecTools: the plugin is loaded with allowedTools and deniedTools that  *)
(* share no tool, and the user changes the permission mode and toggles     *)
(* tools.                                                                  *)
(***************************************************************************)
StoredAllowedTools == {<< >>, <<"Edit">>, <<"Bash">>}
StoredDeniedTools == {<< >>, <<"Edit">>, <<"Bash", "WebFetch">>}

InitTools ==
    \E allowed \in StoredAllowedTools, denied \in StoredDeniedTools,
       mode \in {"default", "custom"} :
        /\ \A n \in 1..Len(allowed) : ~Includes(denied, allowed[n])
        /\ InitLaunch([DEFAULT_SETTINGS EXCEPT !.permissionMode = mode,
                                               !.allowedTools = allowed,
                                               !.deniedTools = denied],
                      {StdClaudePath}, FileInFolder)

NextTools ==
    \/ \E value \in PermissionModes : SetPermissionMode(value)
    \/ \E tool \in ToggledTools, value \in BOOLEAN : ToggleTool(tool, value)

SpecTools == InitTools /\ [][NextTools]_vars

(***************************************************************************)
(* SpecPresence: launches while the assistant is installed and removed and *)
(* the user edits the custom-path setting.                                 *)
(***************************************************************************)
\* The file systems the model moves between.
EnvStates == {{}, {OtherClaudePath}, ClaudePaths}

InitPresence ==
    \E u \in BOOLEAN, p \in {"claude", OtherClaudePath},
       files \in EnvStates :
        InitLaunch([DEFAULT_SETTINGS EXCEPT !.terminalApp = "cmd",
                                            !.useCustomClaudePath = u,
                                            !.claudeCodePath = p],
                   files, FileInFolder)

NextPresence ==
    \/ \E i \in 1..MaxLaunch : Trigger(i)
    \/ \E i \in 0..MaxLaunch, err \in BOOLEAN : VerifyDone(i, err)
    \/ \E i \in 0..MaxLaunch, err \in BOOLEAN : DetectDone(i, err)
    \/ \E i \in 0..MaxLaunch, ok \in BOOLEAN : SaveDone(i, ok)
    \/ \E value \in BOOLEAN : ToggleCustomClaudePath(value)
    \/ \E err \in BOOLEAN : ToggleDetectDone(err)
    \/ \E value \in PathInputs : SetClaudeCodePath(value)
    \/ \E files \in EnvStates : EnvChange(files)

SpecPresence == InitPresence /\ [][NextPresence]_vars

(***************************************************************************)
(* SpecCustom: launches with terminal id 'custom', the template, the vault *)
(* path and the active note drawn from bounded sets.                       *)
(***************************************************************************)
MaxTemplateLen == 3

TemplateAtoms == {"echo ", CWD_PLACEHOLDER, CLAUDE_PLACEHOLDER}
CustomTemplates ==
    UNION {[1..n -> TemplateAtoms] : n \in 0..MaxTemplateLen}
CustomVaultPaths ==
    { << >>, <<"C:", BS, "My ", DOLLAR_AMP, " Vault">>,
      <<"C:", BS, DOLLAR_DOLLAR, BS, CLAUDE_PLACEHOLDER>> }
ActiveFiles == {NoFile, FileInFolder}

InitCustom ==
    \E c \in CustomTemplates, v \in CustomVaultPaths, file \in ActiveFiles :
        InitLaunch([DEFAULT_SETTINGS EXCEPT !.terminalApp = "custom",
                                            !.customCommand = c,
                                            !.useCustomVaultPath = (v # << >>),
                                            !.customVaultPath = v],
                   {StdClaudePath}, file)

NextCustom ==
    \/ \E i \in 1..MaxLaunch : Trigger(i)
    \/ \E i \in 0..MaxLaunch, err \in BOOLEAN : DetectDone(i, err)
    \/ \E i \in 0..MaxLaunch, ok \in BOOLEAN : SaveDone(i, ok)
    \/ \E i \in 1..MaxLaunch, ok \in BOOLEAN : SpawnDone(i, ok)
    \/ SetCustomCommand(SampleTemplate)

SpecCustom == InitCustom /\ [][NextCustom]_vars

(***************************************************************************)
(* SpecBuild: launches in Command Prompt with the launch options of the    *)
(* stored settings drawn from bounded sets.                                *)
(***************************************************************************)
MaxTurnsValues == {-1, 0, 1, 9, 10, 11}

InitBuild ==
    \E n \in MaxTurnsValues, v \in BOOLEAN, c \in BOOLEAN :
        InitLaunch([DEFAULT_SETTINGS EXCEPT !.maxTurns = n,
                                            !.verboseMode = v,
                                            !.continueLastSession = c],
                   {StdClaudePath}, FileInFolder)

NextBuild ==
    \/ \E i \in 1..MaxLaunch : Trigger(i)
    \/ \E i \in 0..MaxLaunch, err \in BOOLEAN : DetectDone(i, err)
    \/ \E i \in 0..MaxLaunch, ok \in BOOLEAN : SaveDone(i, ok)
    \/ \E i \in 1..MaxLaunch, ok \in BOOLEAN : SpawnDone(i, ok)
    \/ \E value \in BOOLEAN : SetContinueLastSession(value)

SpecBuild == InitBuild /\ [][NextBuild]_vars

(***************************************************************************)
(* SpecCache: the settings tab is displayed on Windows and its two streams *)
(* query the cache while time passes and applications come and go.         *)
(***************************************************************************)
InitCacheSpec ==
    /\ \E t \in {"cmd", "windowsterminal", "foo"}, dbg \in BOOLEAN :
          settings = [DEFAULT_SETTINGS EXCEPT !.terminalApp = t, !.showDebugInfo = dbg]
    /\ loaded = TRUE
    /\ dataFile = NoData
    /\ defaultSettings = DEFAULT_SETTINGS
    /\ sharedArrays = {}
    /\ claudeInstalled = NULL
    /\ platformWin = TRUE
    /\ fs = {StdClaudePath}
    /\ activeFile = FileInFolder
    /\ uiDetecting = FALSE
    /\ overrideChanged = FALSE
    /\ lastCheck = [caller |-> 0, afterChange |-> FALSE, probed |-> TRUE]
    /\ inv = [i \in 0..MaxLaunch |->
                IF i = 0 THEN [IdleInv EXCEPT !.pc = "detecting"] ELSE IdleInv]
    /\ InitCache
    /\ present \in SUBSET CacheKeys

NextCache ==
    \/ \E d \in 1..MaxDisplay : Display(d)
    \/ \E d \in 1..MaxDisplay, value \in BOOLEAN : ToggleDebug(d, value)
    \/ \E d \in 1..MaxDisplay : StatusDone(d)
    \/ \E d \in 1..MaxDisplay : BuiltinsDone(d)
    \/ \E d \in 1..MaxDisplay, kind \in {"drop", "dbg"}, err \in BOOLEAN : ProbeDone(d, kind, err)
    \/ \E t \in Instants : Tick(t)
    \/ \E key \in CacheKeys : EnvFlip(key)

SpecCache == InitCacheSpec /\ [][NextCache]_vars

(***************************************************************************)
(* Claims about the terminal presence cache (SpecCache)                    *)
(***************************************************************************)
StreamKinds == {"drop", "dbg"}
QueryAt(d, kind, key) == display[d][kind].qs[key]
QueryPlaces == (1..MaxDisplay) \X StreamKinds \X CacheKeys

\* C6, as stated: two queries for the same key made within 60 000 ms of one
\* another return the identical result.
C6_SameResultWithin60000 ==
    \A x \in QueryPlaces, y \in QueryPlaces :
        LET q1 == QueryAt(x[1], x[2], x[3])
            q2 == QueryAt(y[1], y[2], y[3])
        IN (/\ x[3] = y[3]
            /\ q1.state = "answered" /\ q2.state = "answered"
            /\ q1.made <= q2.made
            /\ q2.made - q1.made <= 60000)
           => q1.result = q2.result

\* C6, amended: a query made while the cache holds an entry of its key that was
\* stored less than 60 000 ms before is answered with that entry's result and
\* without a probe; any other query begins a probe.
C6_FreshEntryAnswersElseProbe ==
    [][\A x \in QueryPlaces :
         LET old == QueryAt(x[1], x[2], x[3])
             new == display'[x[1]][x[2]].qs[x[3]]
             entry == terminalAppCache'[x[3]]
         IN (old.state = "none" /\ new.state # "none")
            => IF entry.has /\ new.made - entry.timestamp < 60000
               THEN /\ new.state = "answered"
                    /\ ~new.probed
                    /\ new.result = B2S(entry.installed)
               ELSE new.state = "probing" /\ new.probed]_vars

\* C6's case: a query made 59 999 ms after the probe is answered "installed"
\* from the cache although the application is gone.
C6_Witness ==
    \E d \in 1..MaxDisplay, key \in CacheKeys :
        LET q == QueryAt(d, "dbg", key) IN
        /\ q.state = "answered" /\ ~q.probed
        /\ q.made = 59999
        /\ q.result = "true"
        /\ key \notin present

\* C8, as stated: the first query of a key that is made after the cache was
\* cleared is probed.
C8_NextQueryAfterClearProbes ==
    \A x \in QueryPlaces :
        LET q == QueryAt(x[1], x[2], x[3]) IN
        (q.state # "none" /\ q.afterClear) => q.probed

\* C8, amended: the clear leaves no entry, whatever its age; the first query of
\* a key made after the clear is probed unless the entry it reads was stored by
\* a probe that was in flight when the cache was cleared.
C8_ClearEmptiesAndOnlyInFlightProbesRefill ==
    /\ [][\A d \in 1..MaxDisplay :
            (display[d].dbg.pc = "status" /\ display'[d].dbg.pc = "builtins")
            => \A key \in CacheKeys : ~terminalAppCache'[key].has]_vars
    /\ [](\A x \in QueryPlaces :
            LET q == QueryAt(x[1], x[2], x[3]) IN
            (q.state # "none" /\ q.afterClear /\ ~q.probed) => q.hitStale)

\* C8's case: an entry stored less than 60 000 ms before was cleared, and the
\* debug list's query of its key was probed.
C8_Witness ==
    \E d \in 1..MaxDisplay, key \in CacheKeys :
        LET first == QueryAt(d, "drop", key)
            next == QueryAt(d, "dbg", key)
        IN /\ first.state = "answered" /\ first.probed /\ ~first.spansClear
           /\ next.state = "answered" /\ next.afterClear /\ next.probed
           /\ next.made - first.made < 60000

(***************************************************************************)
(* Claims about the launch (Spec)                                          *)
(***************************************************************************)
Launches == 1..MaxLaunch
Dispatched(rec) == rec.checkResult = "true"

\* C1: a launch whose terminal id is neither 'custom' nor a key of the dispatch
\* table fails with InvalidTerminalSelected and spawns nothing.
C1_UnknownTerminalFailsWithoutSpawn ==
    \A i \in Launches :
        LET rec == inv[i] IN
        (Dispatched(rec) /\ rec.term # "custom" /\ rec.term \notin TerminalKeys)
        => /\ rec.pc = "done"
           /\ rec.outcome = "Failed"
           /\ rec.error = "InvalidTerminalSelected"
           /\ rec.primarySpawns = 0
           /\ rec.secondary = "none"

\* C2: a launch whose presence check answered false ends with
\* AssistantNotFound and has made no primary spawn and no secondary step.
C2_AssistantNotFoundBeforeAnySpawn ==
    \A i \in Launches :
        LET rec == inv[i] IN
        rec.checkResult = "false"
        => /\ rec.pc = "done"
           /\ rec.outcome = "AssistantNotFound"
           /\ rec.primarySpawns = 0
           /\ rec.command = << >>
           /\ rec.secondary = "none"

\* C2's case: a launch was answered that the assistant is absent.
C2_Witness ==
    \E i \in Launches : inv[i].checkResult = "false" /\ inv[i].outcome = "AssistantNotFound"

\* C3: a launch dispatched for 'custom' or for a key of the dispatch table has
\* made exactly one primary spawn, and once that spawn has returned an error
\* the launch has ended in Failed, with still that one spawn.
C3_ExactlyOnePrimarySpawn ==
    \A i \in Launches :
        LET rec == inv[i] IN
        (Dispatched(rec) /\ (rec.term = "custom" \/ rec.term \in TerminalKeys))
        => /\ rec.primarySpawns = 1
           /\ rec.spawnResult = "error"
              => (rec.pc = "done" /\ rec.outcome = "Failed" /\ rec.secondary = "none")

\* C3's case: a dispatched launch whose primary spawn returned an error.
C3_Witness ==
    \E i \in Launches :
        /\ Dispatched(inv[i])
        /\ inv[i].spawnResult = "error"
        /\ inv[i].primarySpawns = 1

\* C4: once the primary spawn of an editor launch has succeeded the launch is
\* Done, whatever the state of the secondary step; a failed secondary step has
\* shown its own notice and left the outcome and the primary spawn as they were.
C4_EditorDoneRegardlessOfSecondary ==
    \A i \in Launches :
        LET rec == inv[i] IN
        (rec.editor /\ rec.spawnResult = "ok")
        => /\ rec.pc = "done"
           /\ rec.outcome = "Done"
           /\ rec.primarySpawns = 1
           /\ rec.secondary \in {"scheduled", "typing", "ok", "failed"}
           /\ rec.secondary = "failed"
              => /\ ("Failed to open terminal in " \o rec.editorName) \in rec.notices
                 /\ "Failed to open Claude Code" \notin rec.notices

\* C4's case: the secondary step of a Done editor launch has failed.
C4_Witness ==
    \E i \in Launches :
        /\ inv[i].editor
        /\ inv[i].outcome = "Done"
        /\ inv[i].secondary = "failed"

\* C5: a secondary step exists only for a vscode or cursor launch whose primary
\* spawn has succeeded.
C5_SecondaryOnlyForEditorsAfterPrimary ==
    \A i \in Launches :
        LET rec == inv[i] IN
        /\ rec.secondary # "none" => (rec.term \in {"vscode", "cursor"} /\ rec.spawnResult = "ok")
        /\ rec.term \in {"cmd", "powershell", "windowsterminal", "custom"}
           => rec.secondary = "none"
        /\ rec.spawnResult # "ok" => rec.secondary = "none"

\* C5's case: the secondary step of a vscode launch is scheduled.
C5_Witness ==
    \E i \in Launches : inv[i].term = "vscode" /\ inv[i].secondary = "scheduled"

(***************************************************************************)
(* Claims about the assistant presence memo (SpecPresence)                 *)
(***************************************************************************)
\* C7: with a true result cached, the first call of the presence check after
\* the user changed the override-path setting (toggle or path) runs a fresh
\* probe instead of returning the cached value.
C7_ChangeOfOverrideForcesProbe ==
    (lastCheck.afterChange /\ claudeInstalled = "true") => lastCheck.probed

(***************************************************************************)
(* Claims about the custom command (SpecCustom)                            *)
(***************************************************************************)
\* Every occurrence of the atom pat replaced by the text rep, literally.
RECURSIVE ReplaceEvery(_, _, _)
ReplaceEvery(str, pat, rep) ==
    IF str = << >> THEN << >>
    ELSE (IF Head(str) = pat THEN rep ELSE <<Head(str)>>)
         \o ReplaceEvery(Tail(str), pat, rep)

\* C9: the command spawned for 'custom' is the template with every {{cwd}}
\* replaced by the resolved directory and every {{claude}} by the built inner
\* command, and the spawn's working directory is the resolved directory.
C9_EveryPlaceholderReplaced ==
    \A i \in Launches :
        LET rec == inv[i] IN
        (Dispatched(rec) /\ rec.term = "custom")
        => /\ rec.command =
                ReplaceEvery(ReplaceEvery(rec.template, CWD_PLACEHOLDER, rec.workingDir),
                             CLAUDE_PLACEHOLDER, rec.claudeCommand)
           /\ rec.spawnHasCwd
           /\ rec.spawnCwd = rec.workingDir

(***************************************************************************)
(* Claims about the command builder (SpecBuild)                            *)
(***************************************************************************)
\* The text holds flag followed by a blank and value.
HasFlagWithValue(str, flag, value) ==
    \E n \in 1..(Len(str) - 2) :
        str[n] = flag /\ str[n + 1] = " " /\ str[n + 2] = value

HasFlag(str, flag) == \E n \in 1..Len(str) : str[n] = flag

\* C10: the built command holds no --max-turns when maxTurns is 10, and
\* '--max-turns <n>' for every other integer n, 0 and negative values included.
C10_MaxTurnsAppendedUnlessTen ==
    \A i \in Launches :
        LET rec == inv[i] IN
        Dispatched(rec)
        => IF settings.maxTurns = 10
           THEN ~HasFlag(rec.claudeCommand, "--max-turns")
           ELSE HasFlagWithValue(rec.claudeCommand, "--max-turns",
                                 ToString(settings.maxTurns))

(***************************************************************************)
(* Claims about the settings record (SpecDelay, SpecSettings)              *)
(***************************************************************************)
\* C11: the delay with which a secondary step was scheduled lies within
\* 500..10000 ms, whatever stored record was loaded and whatever the user
\* entered in the settings tab.
C11_DelayWithinRange ==
    \A i \in Launches :
        inv[i].secondary # "none" => inv[i].delay \in 500..10000

\* C17: the load makes settings the defaults overridden field by field by the
\* stored record: a field the stored record holds takes the stored value, and
\* a field it lacks takes the default value.
C17_LoadMergesStoredOverDefaults ==
    [][(~loaded /\ loaded')
       => /\ DOMAIN settings' = DOMAIN DEFAULT_SETTINGS \cup DOMAIN dataFile
          /\ \A f \in DOMAIN dataFile : settings'[f] = dataFile[f]
          /\ \A f \in DOMAIN DEFAULT_SETTINGS \ DOMAIN dataFile :
                settings'[f] = DEFAULT_SETTINGS[f]]_vars

\* C17's case: a stored record holding a delay, a terminal and a field the
\* defaults lack, but no allowedTools, has been loaded.
C17_Witness ==
    /\ loaded
    /\ "legacyOption" \in DOMAIN settings
    /\ settings.terminalDelay = 100
    /\ settings.terminalApp = "vscode"
    /\ "allowedTools" \in sharedArrays
    /\ settings.maxTurns = DefaultMaxTurns

\* C20: no load and no operation of the settings tab changes the
\* DEFAULT_SETTINGS record; its allowedTools stays empty.
C20_DefaultSettingsNeverModified ==
    /\ defaultSettings = DEFAULT_SETTINGS
    /\ defaultSettings.allowedTools = << >>

(***************************************************************************)
(* Claims about the path resolver (SpecPath)                               *)
(***************************************************************************)
\* The step in which launch i resolves its directory and starts its spawn.
DispatchStep(i) == inv[i].pc # "spawning" /\ inv'[i].pc = "spawning"

EffectiveRoot ==
    IF settings.useCustomVaultPath /\ settings.customVaultPath # << >>
    THEN settings.customVaultPath
    ELSE VaultBase

SlashesToBackslashes(str) ==
    [n \in 1..Len(str) |-> IF str[n] = SLASH THEN BS ELSE str[n]]

\* C12: when alwaysOpenVaultRoot is set, or there is no active note, or the
\* active note has no parent folder, the resolved directory is the effective
\* root: the custom vault path if enabled and not empty, else the detected one.
C12_RootReturnedUnchanged ==
    [][\A i \in Launches :
         (/\ DispatchStep(i)
          /\ \/ settings.alwaysOpenVaultRoot
             \/ ~activeFile.exists
             \/ ~activeFile.hasParent)
         => inv'[i].workingDir = EffectiveRoot]_vars

\* C12's case: a launch was dispatched for a note without parent folder while
\* the custom vault path was enabled but empty.
C12_Witness ==
    \E i \in Launches :
        /\ inv[i].pc = "spawning"
        /\ activeFile = FileWithoutParent
        /\ settings.useCustomVaultPath
        /\ settings.customVaultPath = << >>
        /\ inv[i].workingDir = VaultBase

\* C13: when alwaysOpenVaultRoot is off and the active note has a parent folder
\* path, the resolved directory is the effective root, a backslash, and the
\* parent path with every '/' replaced by a backslash.
C13_FolderAppendedWithBackslashes ==
    [][\A i \in Launches :
         (/\ DispatchStep(i)
          /\ ~settings.alwaysOpenVaultRoot
          /\ activeFile.exists
          /\ activeFile.hasParent
          /\ activeFile.parentPath # << >>)
         => inv'[i].workingDir =
               EffectiveRoot \o <<BS>> \o SlashesToBackslashes(activeFile.parentPath)]_vars

\* C13's case: a launch was dispatched for a note two folders deep.
C13_Witness ==
    \E i \in Launches :
        /\ inv[i].pc = "spawning"
        /\ ~settings.useCustomVaultPath
        /\ inv[i].workingDir = VaultBase \o <<BS, "Areas", BS, "Work", BS, "Notes">>

(***************************************************************************)
(* Claims about the command builder (SpecOptions, SpecEscape)              *)
(***************************************************************************)
FlagRank(atom) ==
    CASE atom = "--permission-mode" -> 1
      [] atom = "--dangerously-skip-permissions" -> 2
      [] atom = "--allowedTools" -> 3
      [] atom = "--disallowedTools" -> 4
      [] atom = "--model" -> 5
      [] atom = "--continue" -> 6
      [] atom = "--max-turns" -> 7
      [] atom = "--verbose" -> 8
      [] atom = "--add-dir" -> 9
      [] OTHER -> 0

CommaJoined(list) ==
    [k \in 1..(2 * Len(list) - 1) |-> IF k % 2 = 1 THEN list[(k + 1) \div 2] ELSE ","]

NonBlank(dir) == \E n \in 1..Len(dir) : dir[n] # " "

\* The position of the k-th --add-dir of the command.
AddDirPosition(cmd, k) ==
    CHOOSE p \in 1..Len(cmd) :
        /\ cmd[p] = "--add-dir"
        /\ Cardinality({q \in 1..(p - 1) : cmd[q] = "--add-dir"}) = k - 1

\* C14: in the built command the flags follow the base token in the order
\* --permission-mode, --dangerously-skip-permissions, --allowedTools,
\* --disallowedTools, --model, --continue, --max-turns, --verbose, --add-dir;
\* a non-empty allowedTools appears as --allowedTools and its entries joined
\* with commas in their order; each non-blank additional directory has its
\* --add-dir, in the given order.
C14_FlagsInFixedOrder ==
    \A i \in Launches :
        LET cmd == inv[i].claudeCommand
            tools == settings.allowedTools
            dirs == SelectSeq(settings.additionalDirectories, NonBlank)
        IN Dispatched(inv[i])
           => /\ FlagRank(cmd[1]) = 0
              /\ \A p, q \in {n \in 1..Len(cmd) : FlagRank(cmd[n]) > 0} :
                    p < q => \/ FlagRank(cmd[p]) < FlagRank(cmd[q])
                             \/ (FlagRank(cmd[p]) = 9 /\ FlagRank(cmd[q]) = 9)
              /\ tools # << >>
                 => \E n \in 1..Len(cmd) :
                       /\ cmd[n] = "--allowedTools"
                       /\ SubSeq(cmd, n + 1, n + 2 * Len(tools)) = <<" ">> \o CommaJoined(tools)
              /\ Cardinality({p \in 1..Len(cmd) : cmd[p] = "--add-dir"}) = Len(dirs)
              /\ \A k \in 1..Len(dirs) :
                    LET p == AddDirPosition(cmd, k) IN
                    SubSeq(cmd, p + 1, p + 3 + Len(dirs[k])) = <<" ", Q>> \o dirs[k] \o <<Q>>

\* C14's case: a command built with a model, two allowed tools and two
\* additional directories around a blank one.
C14_Witness ==
    \E i \in Launches :
        /\ Dispatched(inv[i])
        /\ settings.allowedTools = <<"Edit", "Bash">>
        /\ settings.claudeModel = "opus"
        /\ settings.additionalDirectories = <<DirA, <<" ">>, DirB>>
        /\ HasFlag(inv[i].claudeCommand, "--model")

\* C15: with the default launch options the built command is the base token
\* alone: the custom path when it is enabled, 'claude' otherwise.
C15_DefaultOptionsGiveBaseToken ==
    \A i \in Launches :
        (/\ Dispatched(inv[i])
         /\ settings.permissionMode = "default"
         /\ ~settings.dangerouslySkipPermissions
         /\ settings.allowedTools = << >>
         /\ settings.deniedTools = << >>
         /\ settings.claudeModel = "default"
         /\ ~settings.continueLastSession
         /\ settings.maxTurns = 10
         /\ ~settings.verboseMode
         /\ settings.additionalDirectories = << >>)
        => inv[i].claudeCommand =
              <<IF settings.useCustomClaudePath THEN settings.claudeCodePath ELSE "claude">>

\* C15's case: a command built from the default options with the custom path.
C15_Witness ==
    \E i \in Launches :
        /\ Dispatched(inv[i])
        /\ settings.useCustomClaudePath
        /\ inv[i].claudeCommand = <<OtherClaudePath>>

QuotePositions(str) == {n \in 1..Len(str) : str[n] = Q}

\* The text between the quotes of the command's --add-dir argument.
AddDirArgument(cmd) ==
    LET p == AddDirPosition(cmd, 1) IN SubSeq(cmd, p + 3, Len(cmd) - 1)

\* C16: a path without quote is escaped to itself; a path with one quote is
\* escaped to the path with that quote doubled, one character longer and the
\* other characters unchanged.
C16_QuoteDoubledOnce ==
    \A i \in Launches :
        LET dir == settings.additionalDirectories[1]
            arg == AddDirArgument(inv[i].claudeCommand)
        IN Dispatched(inv[i])
           => /\ QuotePositions(dir) = {} => arg = dir
              /\ Cardinality(QuotePositions(dir)) = 1
                 => LET k == CHOOSE n \in QuotePositions(dir) : TRUE IN
                    /\ Len(arg) = Len(dir) + 1
                    /\ arg = SubSeq(dir, 1, k) \o <<Q>> \o SubSeq(dir, k + 1, Len(dir))

\* C16's case: the path a"b was escaped.
C16_Witness ==
    \E i \in Launches :
        /\ Dispatched(inv[i])
        /\ settings.additionalDirectories = <<(<<"a", Q, "b">>)>>
        /\ AddDirArgument(inv[i].claudeCommand) = <<"a", Q, Q, "b">>

(***************************************************************************)
(* Claims about the secondary step and the settings (Spec)                 *)
(***************************************************************************)
\* C18: the secondary step of a vscode or cursor launch sends the keystroke of
\* the editor its primary spawn opened and types the inner command built at
\* dispatch, whatever the user changed in the settings in between.
C18_KeystrokeOfOpenedEditor ==
    \A i \in Launches :
        inv[i].secondary \in {"typing", "ok", "failed"}
        => /\ inv[i].keystroke = IF inv[i].term = "vscode" THEN "^{backquote}" ELSE "^j"
           /\ inv[i].typed = inv[i].claudeCommand

(***************************************************************************)
(* Claims about the negative presence memo (SpecPresence)                  *)
(***************************************************************************)
\* C19: once the presence check has answered false, the memo stays false, and
\* every launch begun from then on ends with AssistantNotFound without a probe,
\* also when the assistant has become present.
C19_FalseIsMemoizedForGood ==
    [][claudeInstalled = "false"
       => /\ claudeInstalled' = "false"
          /\ \A i \in Launches :
                (inv[i].pc = "idle" /\ inv'[i].pc # "idle")
                => /\ inv'[i].pc = "done"
                   /\ inv'[i].outcome = "AssistantNotFound"
                   /\ ~lastCheck'.probed]_vars

\* A call of the presence check is between its probe and its answer.
CheckInFlight ==
    \E j \in 0..MaxLaunch : inv[j].pc \in {"verifying", "detecting", "saving"}

\* C19 as amended: while the memo is false, every launch begun ends with
\* AssistantNotFound without a probe, also when the assistant has become
\* present; and the memo stays false unless a call that was already probing
\* when the false was stored answers.
C19_FalseIsMemoizedUnlessProbeInFlight ==
    [][claudeInstalled = "false"
       => /\ ~CheckInFlight => claudeInstalled' = "false"
          /\ \A i \in Launches :
                (inv[i].pc = "idle" /\ inv'[i].pc # "idle")
                => /\ inv'[i].pc = "done"
                   /\ inv'[i].outcome = "AssistantNotFound"
                   /\ inv'[i].primarySpawns = 0
                   /\ ~lastCheck'.probed]_vars

\* C19's case: a launch was refused from the false memo although the
\* assistant is on the search path by now.
C19_Witness ==
    \E i \in Launches :
        /\ claudeInstalled = "false"
        /\ ~settings.useCustomClaudePath
        /\ StdClaudePath \in fs
        /\ lastCheck.caller = i
        /\ ~lastCheck.probed
        /\ inv[i].outcome = "AssistantNotFound"

(***************************************************************************)
(* Claims about allowedTools and deniedTools (SpecTools)                   *)
(***************************************************************************)
Disjoint(listA, listB) == \A n \in 1..Len(listA) : ~Includes(listB, listA[n])

\* The tools a permission mode assigns to allowedTools.
PresetOf(mode) ==
    CASE mode = "acceptEdits" -> EditTools
      [] mode = "bypassPermissions" -> AllTools
      [] OTHER -> << >>

\* C21: after a load with allowedTools and deniedTools sharing no tool, they
\* share no tool after any change of the permission mode and any tool toggle.
C21_AllowedAndDeniedStayDisjoint ==
    Disjoint(settings.allowedTools, settings.deniedTools)

\* C21 as amended: a tool toggle and a change of the mode to default, plan or
\* custom keep allowedTools and deniedTools without common tool; a change to
\* acceptEdits or bypassPermissions sets allowedTools to the mode's tools and
\* leaves deniedTools as it is, so they stay without common tool exactly when
\* deniedTools holds none of the mode's tools.
C21_DisjointKeptExceptByPresets ==
    [][LET changed == settings'.permissionMode # settings.permissionMode
           preset == changed /\ settings'.permissionMode \in {"acceptEdits", "bypassPermissions"}
       IN /\ (Disjoint(settings.allowedTools, settings.deniedTools) /\ ~preset)
             => Disjoint(settings'.allowedTools, settings'.deniedTools)
          /\ preset
             => /\ settings'.allowedTools = PresetOf(settings'.permissionMode)
                /\ settings'.deniedTools = settings.deniedTools
                /\ Disjoint(settings'.allowedTools, settings'.deniedTools)
                   <=> Disjoint(PresetOf(settings'.permissionMode), settings.deniedTools)]_vars

\* C21's case: in custom mode Bash, stored as denied, was toggled on and is no
\* longer denied.
C21_Witness ==
    /\ settings.permissionMode = "custom"
    /\ Includes(settings.allowedTools, "Bash")
    /\ settings.deniedTools = <<"WebFetch">>

=============================================================================
